---- MODULE Spec2Model ----
(***************************************************************************)
(* The inventory ledger of immudb-inventory-api: the product routes, the   *)
(* inventory routes and the time-travel route, over the immudb key-value   *)
(* store reached through withImmudb.                                       *)
(*                                                                         *)
(* Abstractions.  A SKU is a positive integer (0 is the empty string).  A  *)
(* timestamp is an integer number of milliseconds: toISOString() produces  *)
(* fixed-width strings, so string order, Date order and integer order      *)
(* agree.  A uuid is an integer drawn from the unused ones, so that key    *)
(* order in the store is unrelated to creation order.  The keys            *)
(* 'product:<sku>' and 'transaction:<uuid>' of the one key-value store are *)
(* kept in two variables, one per prefix; the 'transaction:' range is a    *)
(* sequence sorted by key, as the store returns it.                        *)
(***************************************************************************)
EXTENDS Integers, Sequences, FiniteSets, TLC

\* ---------------------------------------------------------------- bounds
NumSkus == 2        \* SKUs are 1..NumSkus
MaxQty == 1         \* quantities in requests are 0..MaxQty
MaxTime == 1        \* the clock runs 0..MaxTime
MaxTx == 2          \* uuids are 1..MaxTx: at most MaxTx ledger records
MaxReq == 2         \* requests in flight at once
MaxAudit == 1       \* audit entries written
MaxOver == 1        \* a full ledger holds ScanLimit - MaxOver .. ScanLimit + MaxOver records
MaxFold == 3        \* records of a drawn ledger
MaxUsers == 2       \* user ids are 1..MaxUsers
MaxClock == 60      \* the clock of the lock runs 0..MaxClock
MaxCalls == 3       \* withImmudb calls in progress at once
MaxRan == 1         \* store calls of one callback

\* ------------------------------------------------------ program constants
ScanLimit == 1000   \* limit: 1000 of client.scan
API_KEY == "supersecretapikey"   \* process.env.API_KEY || 'supersecretapikey'
MaxFailedLogins == 5
LockMinutes == 30
AuditLimit == 100    \* limit = 100 of getAuditLogs

SKUs == 1..NumSkus
EmptySku == 0
Reqs == 1..MaxReq
Uuids == 1..MaxTx
Times == 0..MaxTime

VARIABLES
  products,      \* key 'product:<sku>' -> stored buffer
  transactions,  \* the entries under 'transaction:', ascending by key
  collections,   \* the document collections 'products' and
                 \* 'inventory_transactions' behind collectionClient
  auditEntries,  \* number of 'audit:<id>' entries
  now,           \* the clock read by new Date()
  req,           \* the requests in flight, one record per slot
  users,         \* the keys 'user:<id>', 'username:<name>' and 'email:<email>'
  audits,        \* the keys 'audit:<id>' and 'audit_by_...' with their values
  client,        \* the shared ImmudbClient of immudb-client.js
  calls          \* the withImmudb calls in progress, one record per slot

vars == <<products, transactions, collections, auditEntries, now, req,
          users, audits, client, calls>>

\* ------------------------------------------------------------- helpers
Min(a, b) == IF a <= b THEN a ELSE b

\* JSON.stringify into a Buffer, and JSON.parse of its text.
objToBuffer(obj) == [json |-> obj]
bufferToObj(buf) == buf.json

\* A stored value whose text is damaged: JSON.parse throws a SyntaxError on
\* it.  The store's index on the fields of the document is not affected.
Damaged(obj) == [damaged |-> obj]
Parses(buf) == "json" \in DOMAIN buf

\* ------------------------------------------------------- authentication
\* The credentials a request carries: the x-api-key header and the
\* authorization header ("" is a header that is absent).  "Bearer admin" is
\* the token of an active user of role ADMIN, whose lookup succeeds.
NoCredentials == [apiKey |-> "", authorization |-> ""]
WrongApiKey == [apiKey |-> "wrongkey", authorization |-> ""]
LegacyApiKey == [apiKey |-> API_KEY, authorization |-> ""]
AdminToken == [apiKey |-> "", authorization |-> "Bearer admin"]
HeaderInputs == {NoCredentials, WrongApiKey, LegacyApiKey, AdminToken}

\* req.user.permissions of the legacy API key, and USER_ROLES.ADMIN.permissions.
LegacyPermissions ==
  {"inventory.read", "inventory.write", "products.read", "products.write"}
AdminPermissions ==
  {"users.create", "users.read", "users.update", "users.delete",
   "certificates.create", "certificates.read", "certificates.revoke",
   "audit.read", "inventory.read", "inventory.write", "products.read", "products.write"}

\* A middleware's outcome: status 0 is next(), with req.user's permissions.
Unauthorized == [status |-> 401, permissions |-> {}]
Forbidden == [status |-> 403, permissions |-> {}]
Authenticated(permissions) == [status |-> 0, permissions |-> permissions]

\* authenticateApiKey with the key compared to nothing: any key passes.
authenticateApiKeyPresent(headers) ==
  IF headers.apiKey = "" THEN Unauthorized ELSE Authenticated(LegacyPermissions)

authenticateApiKey(headers) ==
  IF headers.apiKey = "" \/ headers.apiKey # API_KEY
  THEN Unauthorized
  ELSE Authenticated(LegacyPermissions)

authenticateJWT(headers) ==
  IF headers.authorization = "Bearer admin"
  THEN Authenticated(AdminPermissions)
  ELSE Unauthorized

\* authenticate: a Bearer token first, then the legacy API key.  (The
\* client-certificate branch is not taken: no request carries one.)
authenticate(headers) ==
  IF headers.authorization # "" THEN authenticateJWT(headers)
  ELSE IF headers.apiKey # "" THEN authenticateApiKey(headers)
  ELSE Unauthorized

\* UserManager.hasPermission.
hasPermission(userPermissions, requiredPermission) ==
  "*" \in userPermissions \/ requiredPermission \in userPermissions

\* requirePermission(permission) after an authentication middleware.
requirePermission(user, permission) ==
  IF user.status # 0 THEN user
  ELSE IF ~hasPermission(user.permissions, permission) THEN Forbidden
  ELSE user

Routes ==
  {"addProduct", "getProductDetails", "recordTransaction", "getHistory",
   "getSnapshot", "timeTravel", "verifyTransaction"}

\* The middleware chain in front of each route's handler.
Middleware(route, headers) ==
  IF route = "timeTravel" THEN requirePermission(authenticate(headers), "inventory.read")
  ELSE IF route = "verifyTransaction"
  THEN requirePermission(authenticate(headers), "audit.read")
  ELSE authenticateApiKey(headers)

\* The handler of the route is reached.
Passes(route, headers) == Middleware(route, headers).status = 0

Idle ==
  [op |-> "idle", pc |-> "idle", sku |-> 0, quantity |-> 0, type |-> "",
   target |-> 0, created_at |-> 0, uuid |-> 0, timestamp |-> 0,
   status |-> 0, error |-> "", stock |-> 0, last |-> 0, count |-> 0,
   history |-> <<>>, snapshot |-> <<>>,
   headers |-> NoCredentials,
   body |-> <<>>,    \* req.body of a POST
   \* bookkeeping for the properties: the store writes the request has made,
   \* whether its scan resolved, and facts of the store at its start or scan
   writes |-> 0, scanned |-> FALSE, pre |-> <<>>,
   sends |-> 0]      \* the calls of res.json the handler has made

\* res.status(code).json(...): the request is answered.  The error of a 500
\* is "StorageError" when a call to the store failed and "InternalError"
\* when the handler's own code threw.
Respond(r, code, err) ==
  [r EXCEPT !.pc = "done", !.status = code, !.error = err, !.sends = @ + 1]

\* A call that is no route handler returns or throws: no response is sent.
Return(r, code, err) == [r EXCEPT !.pc = "done", !.status = code, !.error = err]

\* The stock of the data model: the sum of quantity_change over the ledger
\* records entries[lo..hi] of a SKU with timestamp <= t.
RECURSIVE StockOver(_, _, _, _, _)
StockOver(entries, lo, hi, sku, t) ==
  IF lo > hi THEN 0
  ELSE IF lo = hi
       THEN LET value == entries[lo].value
            IN  IF /\ Parses(value)
                   /\ bufferToObj(value).sku = sku
                   /\ bufferToObj(value).timestamp <= t
                THEN bufferToObj(value).quantity_change
                ELSE 0
       ELSE LET mid == (lo + hi) \div 2
            IN  StockOver(entries, lo, mid, sku, t) + StockOver(entries, mid + 1, hi, sku, t)

\* ------------------------------------------------------------ the store
\* client.set({key: 'product:<sku>', value}): the key now reads as value.
ProductSet(store, key, value) ==
  [k \in (DOMAIN store) \cup {key} |-> IF k = key THEN value ELSE store[k]]

\* client.set({key: 'transaction:<uuid>', value}): the entry takes its place
\* in key order.
TransactionSet(entries, key, value) ==
  LET below == {i \in 1..Len(entries) : entries[i].key < key}
      above == {i \in 1..Len(entries) : entries[i].key > key}
      k == Cardinality(below)
      m == Cardinality(above)
  IN  SubSeq(entries, 1, k) \o <<[key |-> key, value |-> value]>>
        \o SubSeq(entries, Len(entries) - m + 1, Len(entries))

\* client.scan({seekKey: 'transaction:', limit, desc: false}): the first
\* `limit` entries from the seek key on, ascending by key.
Scan(entries, limit) ==
  [entriesList |-> SubSeq(entries, 1, Min(Len(entries), limit))]

CallbackArgsWithCollections == <<"client", "collectionClient">>

\* withImmudb calls callback(client): the arguments the callback receives.
CallbackArgs == <<"client">>
\* The callback's second parameter, collectionClient, is bound only if a
\* second argument is passed.
HasCollectionClient == Len(CallbackArgs) >= 2

\* generateUuid(): an identifier no record and no request holds yet.
FreeUuids ==
  Uuids \ ({transactions[i].key : i \in 1..Len(transactions)}
             \cup {req[r].uuid : r \in Reqs})

\* stock(sku, t) of the whole ledger.
LedgerStock(sku, t) == StockOver(transactions, 1, Len(transactions), sku, t)

\* The ledger records of a SKU with timestamp <= t.
LedgerCount(sku, t) ==
  Cardinality({i \in 1..Len(transactions) :
     /\ Parses(transactions[i].value)
     /\ bufferToObj(transactions[i].value).sku = sku
     /\ bufferToObj(transactions[i].value).timestamp <= t})

\* The requests that will still append a ledger record.
Appending == {r \in Reqs : req[r].op = "addProduct" /\ req[r].pc # "done"}

\* An answer is delivered before the server takes its next step.
NoneDone == \A r \in Reqs : req[r].pc # "done"

\* Request r is at step pc of handler op.
At(r, op, pc) == NoneDone /\ req[r].op = op /\ req[r].pc = pc

\* A new addProduct request is taken by the lowest idle slot (the slots are
\* interchangeable); the requests that overlap are the addProduct requests.
Accepts(r) ==
  /\ NoneDone
  /\ req[r].op = "idle"
  /\ \A o \in Reqs : o < r => req[o].op = "addProduct"
  /\ \A o \in Reqs : o > r => req[o].op \in {"idle", "addProduct"}

\* Any other request is served while no request is in flight.  No store
\* state is lost: addProduct may fail after each of its writes, so every
\* store state is also reached with all slots idle.
AcceptsAlone(r) ==
  /\ r = 1
  /\ \A o \in Reqs : req[o].op = "idle"

\* ------------------------------------------------- POST /api/products
SkuInputs == SKUs \cup {EmptySku}
NameInputs == {"", "Laptop"}
\* A number of the body: null (or absent), or the number v, or v + 1/2
\* when half.
PriceInputs ==
  {[null |-> TRUE, v |-> 0, half |-> FALSE], [null |-> FALSE, v |-> 1, half |-> FALSE]}
QuantityInputs ==
  {[null |-> TRUE, v |-> 0, half |-> FALSE]}
    \cup {[null |-> FALSE, v |-> q, half |-> FALSE] : q \in 0..MaxQty}

\* Validation, then newProduct with created_at = new Date(), then withImmudb.
AddProductStart(r, sku, name, price, quantity) ==
  /\ Accepts(r)
  /\ Len(transactions) + Cardinality(Appending) < MaxTx
  /\ \E headers \in HeaderInputs :
       /\ Passes("addProduct", headers)
       /\ req' = [req EXCEPT ![r] =
            IF sku = EmptySku \/ name = "" \/ price.null \/ quantity.null
            THEN Respond([Idle EXCEPT !.op = "addProduct", !.headers = headers,
                            !.body = [sku |-> sku, name |-> name, price |-> price,
                                      quantity |-> quantity]],
                         400, "ValidationError")
            ELSE [Idle EXCEPT !.op = "addProduct", !.pc = "get", !.sku = sku,
                              !.headers = headers,
                              !.body = [sku |-> sku, name |-> name, price |-> price,
                                        quantity |-> quantity],
                              !.quantity = quantity.v, !.created_at = now,
                              !.pre = <<sku \in DOMAIN products>>]]
  /\ UNCHANGED <<products, transactions, collections, auditEntries, now,
    users, audits, client, calls>>

\* AddProductGet without the duplicate check: whatever the lookup returns,
\* the handler goes on to the writes.
AddProductGetUnchecked(r) ==
  /\ At(r, "addProduct", "get")
  /\ \/ req' = [req EXCEPT ![r] = [req[r] EXCEPT !.pc = "setProduct"]]
     \/ req' = [req EXCEPT ![r] = Respond(req[r], 500, "StorageError")]
  /\ UNCHANGED <<products, transactions, collections, auditEntries, now,
    users, audits, client, calls>>

\* client.get of 'product:<sku>': an existing product answers 409, 'key not
\* found' goes on to the writes, any other error (one with a message) is
\* rethrown and answers 500.
AddProductGet(r) ==
  /\ At(r, "addProduct", "get")
  /\ \/ req' = [req EXCEPT ![r] =
          IF req[r].sku \in DOMAIN products
          THEN Respond(req[r], 409, "DuplicateSkuError")
          ELSE [req[r] EXCEPT !.pc = "setProduct"]]
     \/ req' = [req EXCEPT ![r] = Respond(req[r], 500, "StorageError")]
  /\ UNCHANGED <<products, transactions, collections, auditEntries, now,
    users, audits, client, calls>>

\* The body of a valid POST /api/products.
ProductBody(sku, quantity) ==
  [sku |-> sku, name |-> "Laptop",
   price |-> [null |-> FALSE, v |-> 1, half |-> FALSE],
   quantity |-> [null |-> FALSE, v |-> quantity, half |-> FALSE]]

\* newProduct as built before withImmudb.
NewProduct(q) ==
  [sku |-> q.sku, name |-> q.body.name, price |-> q.body.price.v,
   initial_quantity |-> q.quantity, created_at |-> q.created_at]

\* client.set of the product; then the seed transaction is built, with a
\* fresh uuid and timestamp = new Date().
AddProductSetProduct(r) ==
  /\ At(r, "addProduct", "setProduct")
  /\ \/ \E id \in FreeUuids :
          /\ products' = ProductSet(products, req[r].sku, objToBuffer(NewProduct(req[r])))
          /\ req' = [req EXCEPT ![r] =
               [req[r] EXCEPT !.pc = "setTransaction", !.uuid = id, !.timestamp = now,
                              !.writes = 1]]
     \/ /\ req' = [req EXCEPT ![r] = Respond(req[r], 500, "StorageError")]
        /\ UNCHANGED products
  /\ UNCHANGED <<transactions, collections, auditEntries, now,
    users, audits, client, calls>>

\* initialTransaction of the product route.
InitialTransaction(q) ==
  [transaction_id |-> q.uuid, sku |-> q.sku, type |-> "IN",
   quantity_change |-> q.quantity, reason |-> "Initial Stock",
   timestamp |-> q.timestamp]

\* AddProductSetTransaction with the error of the set swallowed: the
\* answer is 200 whether or not the seed was written.
AddProductSetTransactionSwallowed(r) ==
  /\ At(r, "addProduct", "setTransaction")
  /\ \/ transactions' =
          TransactionSet(transactions, req[r].uuid, objToBuffer(InitialTransaction(req[r])))
     \/ UNCHANGED transactions
  /\ req' = [req EXCEPT ![r] = Respond([req[r] EXCEPT !.writes = 2], 200, "")]
  /\ UNCHANGED <<products, collections, auditEntries, now,
    users, audits, client, calls>>

\* AddProductSetTransaction with the seed stored under the SKU instead of
\* its uuid.
AddProductSetTransactionBySku(r) ==
  /\ At(r, "addProduct", "setTransaction")
  /\ \/ /\ transactions' =
             TransactionSet(transactions, req[r].sku, objToBuffer(InitialTransaction(req[r])))
        /\ req' = [req EXCEPT ![r] = Respond([req[r] EXCEPT !.writes = 2], 200, "")]
     \/ /\ req' = [req EXCEPT ![r] = Respond(req[r], 500, "StorageError")]
        /\ UNCHANGED transactions
  /\ UNCHANGED <<products, collections, auditEntries, now,
    users, audits, client, calls>>

\* client.set of the seed transaction, then the 200 answer.
AddProductSetTransaction(r) ==
  /\ At(r, "addProduct", "setTransaction")
  /\ \/ /\ transactions' =
             TransactionSet(transactions, req[r].uuid, objToBuffer(InitialTransaction(req[r])))
        /\ req' = [req EXCEPT ![r] = Respond([req[r] EXCEPT !.writes = 2], 200, "")]
     \/ /\ req' = [req EXCEPT ![r] = Respond(req[r], 500, "StorageError")]
        /\ UNCHANGED transactions
  /\ UNCHANGED <<products, collections, auditEntries, now,
    users, audits, client, calls>>

\* ------------------------------------ POST /api/inventory/transaction
TypeInputs == {"", "IN", "OUT", "out", "ADJUSTMENT", "RETURN"}
ReasonInputs == {"", "sale"}
validTypes == {"IN", "OUT", "ADJUSTMENT"}

\* String.prototype.toUpperCase on the types above.
toUpperCase(type) == IF type = "out" THEN "OUT" ELSE type

\* The rows of collectionClient.getAll on 'inventory_transactions' with the
\* query sku EQ sku: the store matches the indexed field of the document.
GetAllBySku(rows, sku) ==
  SelectSeq(rows, LAMBDA row :
    IF Parses(row.value) THEN bufferToObj(row.value).sku = sku
    ELSE row.value.damaged.sku = sku)

\* bufferToObj(row.value) inside rows.forEach / rows.map, with no try around
\* it: the first row that does not parse throws out of the callback.
SyntaxError(rows) == \E i \in 1..Len(rows) : ~Parses(rows[i].value)

\* currentStock of the transaction route: the forEach over the rows.
RECURSIVE CurrentStock(_, _)
CurrentStock(rows, i) ==
  IF i > Len(rows) THEN 0
  ELSE bufferToObj(rows[i].value).quantity_change + CurrentStock(rows, i + 1)

\* The callback of the transaction route with collectionClient bound: the
\* product lookup, the stock check and the append.  The result is the
\* answer and the rows of 'inventory_transactions' afterwards.
RecordTransactionBody(sku, type, quantity, reason, id) ==
  LET rows == collections.inventory_transactions
      currentStock == CurrentStock(GetAllBySku(rows, sku), 1)
      quantityChange == IF toUpperCase(type) = "OUT" THEN 0 - quantity ELSE quantity
      transaction == [transaction_id |-> id, sku |-> sku, type |-> toUpperCase(type),
                      quantity_change |-> quantityChange, reason |-> reason,
                      timestamp |-> now]
  IN  IF sku \notin DOMAIN collections.products
      THEN [status |-> 404, error |-> "NotFoundError", rows |-> rows]
      ELSE IF SyntaxError(GetAllBySku(rows, sku))
      THEN [status |-> 500, error |-> "InternalError", rows |-> rows]
      ELSE IF toUpperCase(type) = "OUT" /\ currentStock + quantityChange < 0
      THEN [status |-> 400, error |-> "InsufficientStockError", rows |-> rows]
      ELSE [status |-> 201, error |-> "",
            rows |-> TransactionSet(rows, id, objToBuffer(transaction))]

\* The result handling of the transaction route after a callback that did
\* not throw.  A 404 or 400 was sent inside the callback by
\* `return res.status(..).json(..)`, so that result is res: it has no message,
\* `if (result)` holds and res.status(201).json(result) is called, which
\* throws, and the catch block calls res.status(500).json(..).
RecordTransactionResult(q, out) ==
  IF out.status \in {404, 400}
  THEN [Respond(q, out.status, out.error) EXCEPT !.sends = @ + 2]
  ELSE Respond(q, out.status, out.error)

\* The handler: validation, then withImmudb(async (client, collectionClient)
\* => ...).  With collectionClient unbound, collectionClient.get throws a
\* TypeError, which withImmudb rethrows and the handler answers with 500.
RecordTransaction(r, sku, type, quantity, reason) ==
  /\ AcceptsAlone(r)
  /\ \E headers \in HeaderInputs :
     LET body == [sku |-> sku, type |-> type, quantity |-> quantity, reason |-> reason]
         q == [Idle EXCEPT !.op = "recordTransaction", !.sku = sku,
                           !.headers = headers, !.body = body,
                           !.type = toUpperCase(type), !.quantity = quantity.v,
                           !.pre = <<sku \in DOMAIN products, LedgerStock(sku, MaxTime)>>]
         invalid == [Idle EXCEPT !.op = "recordTransaction", !.headers = headers,
                                 !.body = body]
     IN
     /\ Passes("recordTransaction", headers)
     /\ IF sku = EmptySku \/ type = "" \/ quantity.null \/ quantity.v <= 0 \/ reason = ""
        THEN /\ req' = [req EXCEPT ![r] = Respond(invalid, 400, "ValidationError")]
             /\ UNCHANGED collections
        ELSE IF toUpperCase(type) \notin validTypes
        THEN /\ req' = [req EXCEPT ![r] = Respond(invalid, 400, "ValidationError")]
             /\ UNCHANGED collections
        ELSE IF ~HasCollectionClient
        THEN /\ req' = [req EXCEPT ![r] = Respond(q, 500, "InternalError")]
             /\ UNCHANGED collections
        ELSE \E id \in FreeUuids :
               LET out == RecordTransactionBody(sku, type, quantity.v, reason, id) IN
               /\ req' = [req EXCEPT ![r] = RecordTransactionResult(q, out)]
               /\ collections' = [collections EXCEPT !.inventory_transactions = out.rows]
  /\ UNCHANGED <<products, transactions, auditEntries, now,
    users, audits, client, calls>>

\* ------------------------------------- GET /api/inventory/history/:sku
\* rows.map(...): each row with the running balance in row order.
RECURSIVE RunningBalances(_, _, _)
RunningBalances(rows, i, runningBalance) ==
  IF i > Len(rows) THEN <<>>
  ELSE LET tx == bufferToObj(rows[i].value)
           balance == runningBalance + tx.quantity_change
       IN  <<[transaction_id |-> tx.transaction_id, timestamp |-> tx.timestamp,
              quantity_change |-> tx.quantity_change, running_balance |-> balance]>>
             \o RunningBalances(rows, i + 1, balance)

\* Array.prototype.sort((a, b) => new Date(a.timestamp) - new Date(b.timestamp)):
\* a stable sort on the timestamp alone.
RECURSIVE SortByTimestamp(_)
SortByTimestamp(list) ==
  IF list = <<>> THEN <<>>
  ELSE LET first == CHOOSE i \in 1..Len(list) :
                      /\ \A j \in 1..Len(list) : list[i].timestamp <= list[j].timestamp
                      /\ \A j \in 1..(i - 1) : list[j].timestamp > list[i].timestamp
       IN  <<list[first]>>
             \o SortByTimestamp(SubSeq(list, 1, first - 1) \o SubSeq(list, first + 1, Len(list)))

\* verifiedTransactions of the history route: the running balance is
\* accumulated by map, in row order, and the result is sorted afterwards.
VerifiedTransactions(rows) == SortByTimestamp(RunningBalances(rows, 1, 0))

\* The callback of the history route with collectionClient bound: the
\* product lookup, the rows of the SKU and verifiedTransactions.
GetHistoryBody(q, sku) ==
  IF sku \notin DOMAIN collections.products
  THEN Respond(q, 404, "NotFoundError")
  ELSE IF SyntaxError(GetAllBySku(collections.inventory_transactions, sku))
  THEN Respond(q, 500, "InternalError")
  ELSE Respond([q EXCEPT !.history = VerifiedTransactions(
                  GetAllBySku(collections.inventory_transactions, sku))], 200, "")

\* The handler: withImmudb(async (client, collectionClient) => ...).  With
\* collectionClient unbound, collectionClient.get throws a TypeError whose
\* message holds no 'not found', and the handler answers with 500.
GetHistory(r, sku) ==
  /\ AcceptsAlone(r)
  /\ \E headers \in HeaderInputs :
       LET q == [Idle EXCEPT !.op = "getHistory", !.sku = sku, !.headers = headers,
                             !.pre = <<sku \in DOMAIN products>>]
       IN /\ Passes("getHistory", headers)
          /\ req' = [req EXCEPT ![r] =
               IF ~HasCollectionClient THEN Respond(q, 500, "InternalError")
               ELSE GetHistoryBody(q, sku)]
  /\ UNCHANGED <<products, transactions, collections, auditEntries, now,
    users, audits, client, calls>>

\* ---------------------------------------------- GET /api/products/:sku
GetProductStart(r, sku) ==
  /\ AcceptsAlone(r)
  /\ \E headers \in HeaderInputs :
       /\ Passes("getProductDetails", headers)
       /\ req' = [req EXCEPT ![r] =
            [Idle EXCEPT !.op = "getProductDetails", !.pc = "get", !.sku = sku,
                         !.headers = headers]]
  /\ UNCHANGED <<products, transactions, collections, auditEntries, now,
    users, audits, client, calls>>

\* client.get of 'product:<sku>': 'key not found' answers 404, any other
\* error is rethrown and answers 500 (its message is not 'No such key').
GetProductGet(r) ==
  /\ At(r, "getProductDetails", "get")
  /\ \/ req' = [req EXCEPT ![r] =
          IF req[r].sku \in DOMAIN products
          THEN [req[r] EXCEPT !.pc = "scan",
                  !.created_at = bufferToObj(products[req[r].sku]).created_at]
          ELSE Respond(req[r], 404, "NotFoundError")]
     \/ req' = [req EXCEPT ![r] = Respond(req[r], 500, "StorageError")]
  /\ UNCHANGED <<products, transactions, collections, auditEntries, now,
    users, audits, client, calls>>

\* One pass of the loop body over scanResponse.items.
ProductLoopBody(acc, item, sku) ==
  LET tx == bufferToObj(item.value) IN
  IF ~Parses(item.value) THEN acc   \* catch (parseError) { continue; }
  ELSE IF tx.sku = sku
  THEN [stock |-> acc.stock + tx.quantity_change,
        last |-> IF tx.timestamp > acc.last THEN tx.timestamp ELSE acc.last,
        count |-> acc.count + 1]
  ELSE acc

\* The for-of loop over list[lo..hi], left to right.
RECURSIVE ProductLoop(_, _, _, _, _)
ProductLoop(acc, list, lo, hi, sku) ==
  IF lo > hi THEN acc
  ELSE IF lo = hi THEN ProductLoopBody(acc, list[lo], sku)
  ELSE LET mid == (lo + hi) \div 2
           left == ProductLoop(acc, list, lo, mid, sku)
       IN  \* count is never negative: the test has the left part evaluated
           \* before the right part is entered
           IF left.count >= 0 THEN ProductLoop(left, list, mid + 1, hi, sku) ELSE left

\* The stock calculation of the product route on a scan response: it reads
\* scanResponse.items, and iterating undefined throws into catch (scanError),
\* which leaves currentStock = 0 and lastTransactionTimestamp = created_at.
ProductStock(scanResponse, sku, created_at) ==
  LET start == [stock |-> 0, last |-> created_at, count |-> 0] IN
  IF "items" \in DOMAIN scanResponse
  THEN ProductLoop(start, scanResponse.items, 1, Len(scanResponse.items), sku)
  ELSE start

\* client.scan and the stock calculation; a failed scan is caught and
\* logged, and the answer is 200 in every case.
GetProductScan(r) ==
  /\ At(r, "getProductDetails", "scan")
  /\ \E ok \in BOOLEAN :
       LET got == IF ok
                  THEN ProductStock(Scan(transactions, ScanLimit), req[r].sku, req[r].created_at)
                  ELSE [stock |-> 0, last |-> req[r].created_at, count |-> 0]
       IN req' = [req EXCEPT ![r] =
            Respond([req[r] EXCEPT !.stock = got.stock, !.last = got.last,
                                   !.scanned = ok,
                                   !.pre = <<LedgerStock(req[r].sku, MaxTime)>>], 200, "")]
  /\ UNCHANGED <<products, transactions, collections, auditEntries, now,
    users, audits, client, calls>>

\* ------------------------------- GET /api/inventory/time-travel/:sku
TimestampInputs ==
  {[kind |-> "missing", t |-> 0], [kind |-> "invalid", t |-> 0]}
    \cup {[kind |-> "iso", t |-> t] : t \in Times}

\* The requests that will still write an audit entry.
Auditing == {r \in Reqs : req[r].op = "timeTravel" /\ req[r].pc # "done"}

\* A missing timestamp and one that new Date() cannot parse answer 400.
TimeTravelStart(r, sku, timestamp) ==
  /\ AcceptsAlone(r)
  /\ auditEntries + Cardinality(Auditing) < MaxAudit
  /\ \E headers \in HeaderInputs :
       /\ Passes("timeTravel", headers)
       /\ req' = [req EXCEPT ![r] =
            IF timestamp.kind # "iso"
            THEN Respond([Idle EXCEPT !.op = "timeTravel", !.headers = headers],
                         400, "ValidationError")
            ELSE [Idle EXCEPT !.op = "timeTravel", !.pc = "get", !.sku = sku,
                              !.headers = headers, !.target = timestamp.t]]
  /\ UNCHANGED <<products, transactions, collections, auditEntries, now,
    users, audits, client, calls>>

\* client.get of 'product:<sku>': 'key not found' answers 404, any other
\* error is rethrown and answers 500.
TimeTravelGet(r) ==
  /\ At(r, "timeTravel", "get")
  /\ \/ req' = [req EXCEPT ![r] =
          IF req[r].sku \in DOMAIN products
          THEN [req[r] EXCEPT !.pc = "scan",
                  !.created_at = bufferToObj(products[req[r].sku]).created_at]
          ELSE Respond(req[r], 404, "NotFoundError")]
     \/ req' = [req EXCEPT ![r] = Respond(req[r], 500, "StorageError")]
  /\ UNCHANGED <<products, transactions, collections, auditEntries, now,
    users, audits, client, calls>>

\* The loop body with the comparison of the cutoff turned round.
TimeTravelLoopBodyReversed(acc, item, sku, targetTimestamp) ==
  LET tx == bufferToObj(item.value) IN
  IF ~Parses(item.value) THEN acc
  ELSE IF tx.sku = sku /\ tx.timestamp >= targetTimestamp
  THEN [stock |-> acc.stock + tx.quantity_change,
        last |-> IF tx.timestamp > acc.last THEN tx.timestamp ELSE acc.last,
        count |-> acc.count + 1]
  ELSE acc

\* One pass of the loop body over scanResponse.entriesList.
TimeTravelLoopBody(acc, item, sku, targetTimestamp) ==
  LET tx == bufferToObj(item.value) IN
  IF ~Parses(item.value) THEN acc   \* catch (parseError) { continue; }
  ELSE IF tx.sku = sku /\ tx.timestamp <= targetTimestamp
  THEN [stock |-> acc.stock + tx.quantity_change,
        last |-> IF tx.timestamp > acc.last THEN tx.timestamp ELSE acc.last,
        count |-> acc.count + 1]
  ELSE acc

\* The for-of loop over list[lo..hi], left to right.
RECURSIVE TimeTravelLoop(_, _, _, _, _, _)
TimeTravelLoop(acc, list, lo, hi, sku, targetTimestamp) ==
  IF lo > hi THEN acc
  ELSE IF lo = hi THEN TimeTravelLoopBody(acc, list[lo], sku, targetTimestamp)
  ELSE LET mid == (lo + hi) \div 2
           left == TimeTravelLoop(acc, list, lo, mid, sku, targetTimestamp)
       IN  \* count is never negative: the test has the left part evaluated
           \* before the right part is entered
           IF left.count >= 0
           THEN TimeTravelLoop(left, list, mid + 1, hi, sku, targetTimestamp)
           ELSE left

\* historicalStock, lastTransactionTimestamp and relevantTransactions.length
\* of the time-travel route on a scan response.
TimeTravelStock(scanResponse, sku, created_at, targetTimestamp) ==
  LET start == [stock |-> 0, last |-> created_at, count |-> 0] IN
  IF "entriesList" \in DOMAIN scanResponse
  THEN TimeTravelLoop(start, scanResponse.entriesList, 1,
                      Len(scanResponse.entriesList), sku, targetTimestamp)
  ELSE start

\* client.scan and the fold; a failed scan is caught and logged, and the
\* handler goes on with historicalStock = 0.
TimeTravelScan(r) ==
  /\ At(r, "timeTravel", "scan")
  /\ \E ok \in BOOLEAN :
       LET got == IF ok
                  THEN TimeTravelStock(Scan(transactions, ScanLimit), req[r].sku,
                                       req[r].created_at, req[r].target)
                  ELSE [stock |-> 0, last |-> req[r].created_at, count |-> 0]
       IN req' = [req EXCEPT ![r] =
            [req[r] EXCEPT !.pc = "audit", !.stock = got.stock, !.last = got.last,
                           !.count = got.count, !.scanned = ok,
                           !.pre = <<LedgerStock(req[r].sku, req[r].target),
                                     LedgerCount(req[r].sku, req[r].target),
                                     LedgerCount(req[r].sku, MaxTime)>>]]
  /\ UNCHANGED <<products, transactions, collections, auditEntries, now,
    users, audits, client, calls>>

TimeTravelAuditInLedger(r) ==
  /\ At(r, "timeTravel", "audit")
  /\ \E id \in FreeUuids :
       transactions' =
         TransactionSet(transactions, id,
                        objToBuffer(InitialTransaction([req[r] EXCEPT !.uuid = id,
                                                                      !.timestamp = now])))
  /\ req' = [req EXCEPT ![r] = Respond(req[r], 200, "")]
  /\ UNCHANGED <<products, collections, auditEntries, now,
    users, audits, client, calls>>

\* AuditLogger.logInventoryOperation(TIME_TRAVEL_QUERY, ...): logEvent sets
\* 'audit:<id>' and then its index keys; an error of any of the sets is
\* rethrown and answers 500.
TimeTravelAudit(r) ==
  /\ At(r, "timeTravel", "audit")
  /\ \/ /\ auditEntries' = auditEntries + 1
        /\ req' = [req EXCEPT ![r] = Respond(req[r], 200, "")]
     \/ /\ auditEntries' \in {auditEntries, auditEntries + 1}
        /\ req' = [req EXCEPT ![r] = Respond(req[r], 500, "StorageError")]
  /\ UNCHANGED <<products, transactions, collections, now,
    users, audits, client, calls>>

\* ------------------------------------------ GET /api/inventory/snapshot
\* lastTransactionTimestamp of the snapshot route: the forEach over the rows.
RECURSIVE LastTimestamp(_, _, _)
LastTimestamp(rows, i, last) ==
  IF i > Len(rows) THEN last
  ELSE LET tx == bufferToObj(rows[i].value)
       IN  LastTimestamp(rows, i + 1, IF tx.timestamp > last THEN tx.timestamp ELSE last)

\* One entry of inventorySnapshot per product of the collection 'products',
\* after the sort by sku.
RECURSIVE InventorySnapshot(_)
InventorySnapshot(skus) ==
  IF skus = {} THEN <<>>
  ELSE LET sku == CHOOSE s \in skus : \A o \in skus : s <= o
           product == bufferToObj(collections.products[sku])
           rows == GetAllBySku(collections.inventory_transactions, sku)
       IN  <<[sku |-> product.sku,
              current_stock |-> CurrentStock(rows, 1),
              last_transaction_timestamp |-> LastTimestamp(rows, 1, product.created_at)]>>
             \o InventorySnapshot(skus \ {sku})

\* The handler: withImmudb(async (client, collectionClient) => ...).  With
\* collectionClient unbound, collectionClient.getAll throws a TypeError and
\* the handler answers with 500.
GetSnapshot(r) ==
  /\ AcceptsAlone(r)
  /\ \E headers \in HeaderInputs :
       LET q == [Idle EXCEPT !.op = "getSnapshot", !.headers = headers] IN
       /\ Passes("getSnapshot", headers)
       /\ req' = [req EXCEPT ![r] =
            IF \/ ~HasCollectionClient
               \/ \E sku \in DOMAIN collections.products :
                    SyntaxError(GetAllBySku(collections.inventory_transactions, sku))
            THEN Respond(q, 500, "InternalError")
            ELSE Respond([q EXCEPT !.snapshot =
                            InventorySnapshot(DOMAIN collections.products)], 200, "")]
  /\ UNCHANGED <<products, transactions, collections, auditEntries, now,
    users, audits, client, calls>>

\* ---------------------------------- GET /api/audit/verify/:transaction_id
TransactionIdInputs == Uuids

\* The callback of the verify route with collectionClient bound: the row of
\* 'inventory_transactions' under the id, or 'No such key'.
VerifyTransactionBody(q, transaction_id) ==
  LET rows == collections.inventory_transactions IN
  IF \E i \in 1..Len(rows) : rows[i].key = transaction_id
  THEN Respond(q, 200, "")
  ELSE Respond(q, 404, "NotFoundError")

\* The handler: withImmudb(async (client, collectionClient) => ...).  With
\* collectionClient unbound, collectionClient.get throws a TypeError whose
\* message holds no 'No such key', and the handler answers with 500.
VerifyTransaction(r, transaction_id) ==
  /\ AcceptsAlone(r)
  /\ \E headers \in HeaderInputs :
       LET q == [Idle EXCEPT !.op = "verifyTransaction", !.headers = headers,
                             !.uuid = transaction_id,
                             !.pre = <<\E i \in 1..Len(transactions) :
                                        transactions[i].key = transaction_id>>]
       IN
       /\ Passes("verifyTransaction", headers)
       /\ req' = [req EXCEPT ![r] =
            IF ~HasCollectionClient THEN Respond(q, 500, "InternalError")
            ELSE VerifyTransactionBody(q, transaction_id)]
  /\ UNCHANGED <<products, transactions, collections, auditEntries, now,
    users, audits, client, calls>>

\* ------------------------------------------------------ rejected requests
\* A middleware answers 401 or 403 and the handler is not called.  On 403
\* requirePermission calls AuditLogger.logEvent without awaiting it: the
\* audit entry is written or, if the store fails, is not.
Reject(r, route, headers) ==
  /\ AcceptsAlone(r)
  /\ ~Passes(route, headers)
  /\ req' = [req EXCEPT ![r] =
       Respond([Idle EXCEPT !.op = route, !.headers = headers],
               Middleware(route, headers).status,
               IF Middleware(route, headers).status = 401 THEN "Unauthorized"
               ELSE "Forbidden")]
  /\ IF Middleware(route, headers).status = 403
     THEN /\ auditEntries < MaxAudit
          /\ auditEntries' \in {auditEntries, auditEntries + 1}
     ELSE UNCHANGED auditEntries
  /\ UNCHANGED <<products, transactions, collections, now,
    users, audits, client, calls>>

\* -------------------------------------------------------- user management
UserIds == 1..MaxUsers
Usernames == {"admin", "bob"}
Emails == {"admin@immudb-inventory.local", "bob@immudb-inventory.local"}
PasswordInputs == {"admin123!", "guess"}

\* null, and an ISO timestamp of the clock.
NullTime == [null |-> TRUE, t |-> 0]
IsoTime(t) == [null |-> FALSE, t |-> t]
\* A lookup that found nothing.
Null == [null |-> TRUE]

\* bcrypt.hash and bcrypt.compare.
bcryptHash(password) == [bcrypt |-> password]
bcryptCompare(password, passwordHash) == passwordHash.bcrypt = password

\* The user object of createUser.
NewUser(userId, username, password, email, role, created_by) ==
  [user_id |-> userId, username |-> username,
   password_hash |-> bcryptHash(password), email |-> email, role |-> role,
   status |-> "ACTIVE", created_by |-> created_by, updated_by |-> created_by,
   last_login |-> NullTime, failed_login_attempts |-> 0, locked_until |-> NullTime]

\* The three client.set of createUser on the store.  The field streak is
\* no key of the store: it counts, for the properties, the failed password
\* attempts of a user since the last successful login or lock expiry.
StoreUser(store, user) ==
  [user |-> ProductSet(store.user, user.user_id, objToBuffer(user)),
   username |-> ProductSet(store.username, user.username,
                           objToBuffer([user_id |-> user.user_id])),
   email |-> ProductSet(store.email, user.email,
                        objToBuffer([user_id |-> user.user_id])),
   streak |-> ProductSet(store.streak, user.user_id, 0)]

NoUsers == [user |-> <<>>, username |-> <<>>, email |-> <<>>, streak |-> <<>>]

\* The store after initializeDefaultAdmin.
DefaultUsers ==
  StoreUser(NoUsers, NewUser(1, "admin", "admin123!", "admin@immudb-inventory.local",
                             "SUPER_ADMIN", "SYSTEM"))

getUserById(store, userId) ==
  IF userId \in DOMAIN store.user THEN bufferToObj(store.user[userId]) ELSE Null

getUserByUsername(store, username) ==
  IF username \in DOMAIN store.username
  THEN getUserById(store, bufferToObj(store.username[username]).user_id)
  ELSE Null

getUserByEmail(store, email) ==
  IF email \in DOMAIN store.email
  THEN getUserById(store, bufferToObj(store.email[email]).user_id)
  ELSE Null

\* {...user, ...updates}, with a password of the updates stored as its hash.
Merge(user, updates, updatedBy) ==
  LET fields == (DOMAIN updates) \ {"password"} IN
  [f \in DOMAIN user |->
     IF f = "updated_by" THEN updatedBy
     ELSE IF f = "password_hash" /\ "password" \in DOMAIN updates
     THEN bcryptHash(updates.password)
     ELSE IF f \in fields THEN updates[f]
     ELSE user[f]]

\* updateUser: 'user:<id>' is set to the merged object; the mapping of a new
\* username or email is set, and the old mapping stays.
updateUser(store, userId, updates, updatedBy) ==
  LET user == getUserById(store, userId)
      updatedUser == Merge(user, updates, updatedBy)
  IN  IF user = Null THEN [error |-> "User not found", users |-> store]
      ELSE [error |-> "",
            users |-> [user |-> ProductSet(store.user, userId, objToBuffer(updatedUser)),
                       username |->
                         IF "username" \in DOMAIN updates /\ updates.username # user.username
                         THEN ProductSet(store.username, updates.username,
                                         objToBuffer([user_id |-> userId]))
                         ELSE store.username,
                       email |->
                         IF "email" \in DOMAIN updates /\ updates.email # user.email
                         THEN ProductSet(store.email, updates.email,
                                         objToBuffer([user_id |-> userId]))
                         ELSE store.email,
                       streak |-> store.streak]]

\* createUser: the required fields, the two uniqueness lookups, then the
\* three sets.
createUser(store, userId, username, password, email, role, created_by) ==
  IF username = "" \/ password = "" \/ email = ""
  THEN [error |-> "Missing required fields", users |-> store]
  ELSE IF getUserByUsername(store, username) # Null
  THEN [error |-> "Username already exists", users |-> store]
  ELSE IF getUserByEmail(store, email) # Null
  THEN [error |-> "Email already exists", users |-> store]
  ELSE [error |-> "",
        users |-> StoreUser(store, NewUser(userId, username, password, email,
                                           role, created_by))]

\* incrementFailedLogin: the account is locked from MaxFailedLogins failed
\* attempts on, for LockMinutes.
incrementFailedLogin(store, userId, time) ==
  LET user == getUserById(store, userId)
      failedAttempts == user.failed_login_attempts + 1
      updates == IF failedAttempts >= MaxFailedLogins
                 THEN [failed_login_attempts |-> failedAttempts,
                       locked_until |-> IsoTime(time + LockMinutes)]
                 ELSE [failed_login_attempts |-> failedAttempts]
  IN  IF user = Null THEN store ELSE updateUser(store, userId, updates, "SYSTEM").users

updateLastLogin(store, userId, time) ==
  updateUser(store, userId,
             [last_login |-> IsoTime(time), failed_login_attempts |-> 0,
              locked_until |-> NullTime], "SYSTEM").users

\* authenticateUser: the error thrown ("" when a token is returned) and the
\* store afterwards.
authenticateUser(store, username, password, time) ==
  LET user == getUserByUsername(store, username)
      expired == ~user.locked_until.null /\ user.locked_until.t <= time
  IN  IF user = Null THEN [error |-> "Invalid credentials", users |-> store]
      ELSE IF user.status # "ACTIVE" THEN [error |-> "Account is inactive", users |-> store]
      ELSE IF ~user.locked_until.null /\ user.locked_until.t > time
      THEN [error |-> "Account is temporarily locked", users |-> store]
      ELSE IF ~bcryptCompare(password, user.password_hash)
      THEN [error |-> "Invalid credentials",
            users |-> [incrementFailedLogin(store, user.user_id, time) EXCEPT
                         !.streak[user.user_id] = IF expired THEN 1 ELSE @ + 1]]
      ELSE [error |-> "",
            users |-> [updateLastLogin(store, user.user_id, time) EXCEPT
                         !.streak[user.user_id] = 0]]

\* A call of UserManager.authenticateUser.
AuthenticateUser(r, username, password) ==
  /\ AcceptsAlone(r)
  /\ LET out == authenticateUser(users, username, password, now)
         before == getUserByUsername(users, username)
         q == [Idle EXCEPT !.op = "authenticateUser",
                           !.body = [username |-> username, password |-> password],
                           !.pre = <<before>>]
     IN  /\ users' = out.users
         /\ req' = [req EXCEPT ![r] = Return(q, 0, out.error)]
  /\ UNCHANGED <<products, transactions, collections, auditEntries, now,
                 audits, client, calls>>

\* A call of UserManager.createUser; generateUuid() gives an id no user has.
CreateUser(r, username, password, email) ==
  /\ AcceptsAlone(r)
  /\ \E userId \in UserIds \ DOMAIN users.user :
       LET out == createUser(users, userId, username, password, email, "USER", "admin")
           q == [Idle EXCEPT !.op = "createUser", !.uuid = userId,
                             !.body = [username |-> username, email |-> email]]
       IN  /\ users' = out.users
           /\ req' = [req EXCEPT ![r] = Return(q, 0, out.error)]
  /\ UNCHANGED <<products, transactions, collections, auditEntries, now,
                 audits, client, calls>>

\* The bodies of PUT /api/admin/users/:userId: a new username or a new email.
UpdateInputs ==
  {[username |-> n] : n \in Usernames} \cup {[email |-> e] : e \in Emails}

\* A call of UserManager.updateUser.
UpdateUser(r, userId, updates) ==
  /\ AcceptsAlone(r)
  /\ LET out == updateUser(users, userId, updates, "admin")
         q == [Idle EXCEPT !.op = "updateUser", !.uuid = userId, !.body = updates,
                           !.pre = <<getUserById(users, userId)>>]
     IN  /\ users' = out.users
         /\ req' = [req EXCEPT ![r] = Return(q, 0, out.error)]
  /\ UNCHANGED <<products, transactions, collections, auditEntries, now,
                 audits, client, calls>>

\* POST /api/admin/auth/login: router.use(authenticateJWT) runs before the
\* handler.  The handler checks the body, calls authenticateUser and logs
\* the login (AuditLogger.logLogin) before it answers 200 or 401.
AdminLogin(r, headers, username, password) ==
  /\ AcceptsAlone(r)
  /\ LET out == authenticateUser(users, username, password, now)
         q == [Idle EXCEPT !.op = "adminLogin", !.headers = headers,
                           !.body = [username |-> username, password |-> password],
                           !.pre = <<getUserByUsername(users, username)>>]
     IN  IF authenticateJWT(headers).status # 0
         THEN /\ req' = [req EXCEPT ![r] = Respond(q, 401, "Unauthorized")]
              /\ UNCHANGED <<users, auditEntries>>
         ELSE IF username = "" \/ password = ""
         THEN /\ req' = [req EXCEPT ![r] = Respond(q, 400, "ValidationError")]
              /\ UNCHANGED <<users, auditEntries>>
         ELSE /\ auditEntries < MaxAudit
              /\ users' = out.users
              /\ auditEntries' = auditEntries + 1
              /\ req' = [req EXCEPT ![r] =
                   IF out.error = "" THEN Respond(q, 200, "")
                   ELSE Respond(q, 401, out.error)]
  /\ UNCHANGED <<products, transactions, collections, now, audits, client, calls>>

\* The clock moves on by the time of a lock.
LockTick ==
  /\ NoneDone
  /\ now < MaxClock
  /\ now' = now + LockMinutes
  /\ UNCHANGED <<products, transactions, collections, auditEntries, req,
                 users, audits, client, calls>>

\* ------------------------------------------------- the storage client
\* client.login and client.logout set and clear the session of the client.
LoggedOut == [session |-> FALSE]
LoggedIn == [session |-> TRUE]
Calls == 1..MaxCalls
IdleCall == [pc |-> "idle", parent |-> 0, loginResponse |-> FALSE, error |-> "",
             ran |-> 0, logouts |-> 0, loggedOut |-> FALSE]

\* The other calls whose callback is running see the client logged out.
SeeLogout(c) ==
  [o \in Calls |->
     IF o # c /\ calls[o].pc \in {"callback", "await"}
     THEN [calls[o] EXCEPT !.loggedOut = TRUE]
     ELSE calls[o]]

\* withImmudb(callback) is called: by a request handler (parent 0), or from
\* inside the callback of the call parent, which awaits it (the audit
\* logging inside time travel, getAuditById inside getAuditLogs).
WithImmudbCall(c, parent) ==
  /\ calls[c].pc = "idle"
  /\ \A o \in Calls : o < c => calls[o].pc # "idle"
  /\ parent # c
  /\ parent # 0 => calls[parent].pc = "callback"
  /\ calls' = [o \in Calls |->
       IF o = c THEN [IdleCall EXCEPT !.pc = "login", !.parent = parent]
       ELSE IF o = parent THEN [calls[o] EXCEPT !.pc = "await"]
       ELSE calls[o]]
  /\ UNCHANGED <<products, transactions, collections, auditEntries, now, req,
                 users, audits, client>>

\* await client.login(...): it resolves and the client holds a session, or
\* it rejects and withImmudb rethrows with loginResponse unset.
WithImmudbLogin(c) ==
  /\ calls[c].pc = "login"
  /\ \/ /\ client' = LoggedIn
        /\ calls' = [calls EXCEPT ![c].pc = "callback", ![c].loginResponse = TRUE]
     \/ /\ client' = client
        /\ calls' = [calls EXCEPT ![c].pc = "finally", ![c].error = "login"]
  /\ UNCHANGED <<products, transactions, collections, auditEntries, now, req,
                 users, audits>>

\* A store call of the callback (client.get, client.set, client.scan): it
\* needs the session, and without it rejects, which ends the callback.
WithImmudbOperation(c) ==
  /\ calls[c].pc = "callback"
  /\ calls[c].ran < MaxRan
  /\ calls' = [calls EXCEPT ![c] =
       IF client.session THEN [@ EXCEPT !.ran = @ + 1]
       ELSE [@ EXCEPT !.pc = "finally", !.error = "not logged in"]]
  /\ UNCHANGED <<products, transactions, collections, auditEntries, now, req,
                 users, audits, client>>

\* The callback returns.
WithImmudbReturn(c) ==
  /\ calls[c].pc = "callback"
  /\ calls' = [calls EXCEPT ![c].pc = "finally"]
  /\ UNCHANGED <<products, transactions, collections, auditEntries, now, req,
                 users, audits, client>>

\* finally: client.logout() if the login had resolved; an error of the
\* logout is logged and dropped.
WithImmudbFinally(c) ==
  /\ calls[c].pc = "finally"
  /\ IF calls[c].loginResponse
     THEN /\ client' = LoggedOut
          /\ calls' = [SeeLogout(c) EXCEPT ![c].pc = "done", ![c].logouts = @ + 1]
     ELSE /\ client' = client
          /\ calls' = [calls EXCEPT ![c].pc = "done"]
  /\ UNCHANGED <<products, transactions, collections, auditEntries, now, req,
                 users, audits>>

\* The promise of the call settles: the caller goes on (a callback that
\* awaited the call with the error rethrown into it).
WithImmudbSettle(c) ==
  /\ calls[c].pc = "done"
  /\ calls' = [o \in Calls |->
       IF o = c THEN IdleCall
       ELSE IF o = calls[c].parent
       THEN IF calls[c].error = "" THEN [calls[o] EXCEPT !.pc = "callback"]
            ELSE [calls[o] EXCEPT !.pc = "finally", !.error = calls[c].error]
       ELSE calls[o]]
  /\ UNCHANGED <<products, transactions, collections, auditEntries, now, req,
                 users, audits, client>>

\* ------------------------------------------------------------ audit log
\* A key is the sequence of its parts, the separator ':' being a part.
\* String.prototype.startsWith, and String.prototype.replace with a string
\* pattern, which replaces the first occurrence only.
startsWith(key, prefix) ==
  Len(prefix) <= Len(key) /\ SubSeq(key, 1, Len(prefix)) = prefix

replace(text, pattern, replacement) ==
  IF \E i \in 1..Len(text) : text[i] = pattern
  THEN LET first == CHOOSE i \in 1..Len(text) :
                      text[i] = pattern /\ \A j \in 1..(i - 1) : text[j] # pattern
       IN  [text EXCEPT ![first] = replacement]
  ELSE text

EventTypeInputs == {"LOGIN_SUCCESS", "LOGIN_FAILED"}
AuditUserInputs == {"", "SYSTEM", "1"}
AuditIds == 1..MaxAudit

determineRiskLevel(eventType) == IF eventType = "LOGIN_FAILED" THEN "HIGH" ELSE "LOW"

\* auditEntry of logEvent.
AuditEntry(auditId, eventType, details, timestamp) ==
  [audit_id |-> auditId, event_type |-> eventType, timestamp |-> timestamp,
   user_id |-> IF details.user_id = "" THEN "SYSTEM" ELSE details.user_id,
   risk_level |-> determineRiskLevel(eventType)]

\* The keys logEvent sets for an entry, with their values.
AuditKeys(auditId, eventType, details, timestamp) ==
  LET id == ToString(auditId)
      time == ToString(timestamp)
      riskLevel == determineRiskLevel(eventType)
      ref == objToBuffer([audit_id |-> auditId])
  IN  {[key |-> <<"audit", ":", id>>,
        value |-> objToBuffer(AuditEntry(auditId, eventType, details, timestamp))],
       [key |-> <<"audit_by_time", ":", time, ":", id>>, value |-> ref],
       [key |-> <<"audit_by_event", ":", eventType, ":", time, ":", id>>, value |-> ref]}
      \cup (IF details.user_id # "" /\ details.user_id # "SYSTEM"
            THEN {[key |-> <<"audit_by_user", ":", details.user_id, ":", time, ":", id>>,
                   value |-> ref]}
            ELSE {})
      \cup (IF riskLevel \in {"HIGH", "CRITICAL"}
            THEN {[key |-> <<"audit_by_risk", ":", riskLevel, ":", time, ":", id>>,
                   value |-> ref]}
            ELSE {})

\* AuditLogger.logEvent(eventType, details), its sets resolving.
LogEvent(r, eventType, details) ==
  /\ AcceptsAlone(r)
  /\ auditEntries < MaxAudit
  /\ \E auditId \in AuditIds \ {bufferToObj(e.value).audit_id : e \in audits} :
       /\ audits' = audits \cup AuditKeys(auditId, eventType, details, now)
       /\ req' = [req EXCEPT ![r] =
            Return([Idle EXCEPT !.op = "logEvent", !.uuid = auditId, !.timestamp = now,
                                 !.body = [event_type |-> eventType,
                                           user_id |-> details.user_id]], 0, "")]
  /\ auditEntries' = auditEntries + 1
  /\ UNCHANGED <<products, transactions, collections, now, users, client, calls>>

\* getAuditById: the entry under 'audit:<id>', or null.
getAuditById(store, auditId) ==
  IF \E e \in store : e.key = <<"audit", ":", ToString(auditId)>>
  THEN bufferToObj((CHOOSE e \in store : e.key = <<"audit", ":", ToString(auditId)>>).value)
  ELSE Null

\* scanKey of getAuditLogs.
ScanKey(filters) ==
  IF "user_id" \in DOMAIN filters THEN <<"audit_by_user", ":", filters.user_id, ":">>
  ELSE IF "event_type" \in DOMAIN filters
  THEN <<"audit_by_event", ":", filters.event_type, ":">>
  ELSE IF "risk_level" \in DOMAIN filters
  THEN <<"audit_by_risk", ":", filters.risk_level, ":">>
  ELSE <<"audit_by_time", ":">>

\* The responses client.scan may give to getAuditLogs: at most limit
\* entries of the store, in the order the store returns them.
AuditScans(store, limit) ==
  {list \in UNION {[1..n -> store] : n \in 0..Min(Cardinality(store), limit)} :
     \A i, j \in 1..Len(list) : i # j => list[i] # list[j]}

\* The for-of loop of getAuditLogs over entriesList[i..]: the audit ids
\* whose getAuditById is pushed.
RECURSIVE AuditLoop(_, _, _, _, _, _, _)
AuditLoop(entriesList, i, scanKey, limit, offset, processed, pushed) ==
  IF i > Len(entriesList) THEN pushed
  ELSE IF ~startsWith(entriesList[i].key, replace(scanKey, ":", "_by_"))
  THEN AuditLoop(entriesList, i + 1, scanKey, limit, offset, processed, pushed)
  ELSE IF processed < offset
  THEN AuditLoop(entriesList, i + 1, scanKey, limit, offset, processed + 1, pushed)
  ELSE IF Len(pushed) >= limit THEN pushed
  ELSE AuditLoop(entriesList, i + 1, scanKey, limit, offset, processed,
                 Append(pushed, bufferToObj(entriesList[i].value).audit_id))

\* Array.prototype.sort((a, b) => new Date(b.timestamp) - new Date(a.timestamp)).
RECURSIVE SortByTimestampDesc(_)
SortByTimestampDesc(list) ==
  IF list = <<>> THEN <<>>
  ELSE LET first == CHOOSE i \in 1..Len(list) :
                      /\ \A j \in 1..Len(list) : list[i].timestamp >= list[j].timestamp
                      /\ \A j \in 1..(i - 1) : list[j].timestamp < list[i].timestamp
       IN  <<list[first]>>
             \o SortByTimestampDesc(SubSeq(list, 1, first - 1)
                                      \o SubSeq(list, first + 1, Len(list)))

\* getAuditLogs(filters, limit, offset) on a scan response: the logs of the
\* pushed ids, without the ids that resolve to null, most recent first.
getAuditLogs(store, entriesList, filters, limit, offset) ==
  LET pushed == AuditLoop(entriesList, 1, ScanKey(filters), limit, offset, 0, <<>>)
      resolvedLogs == [i \in 1..Len(pushed) |-> getAuditById(store, pushed[i])]
  IN  SortByTimestampDesc(SelectSeq(resolvedLogs, LAMBDA log : log # Null))

FilterInputs ==
  {<<>>} \cup {[user_id |-> u] : u \in AuditUserInputs \ {""}}
         \cup {[event_type |-> e] : e \in EventTypeInputs}
         \cup {[risk_level |-> l] : l \in {"HIGH", "LOW"}}

\* A call of AuditLogger.getAuditLogs with the default limit and offset 0.
GetAuditLogs(r, filters) ==
  /\ AcceptsAlone(r)
  /\ \E entriesList \in AuditScans(audits, AuditLimit) :
       req' = [req EXCEPT ![r] =
         Return([Idle EXCEPT !.op = "getAuditLogs", !.body = filters,
                              !.history = getAuditLogs(audits, entriesList, filters,
                                                       AuditLimit, 0)], 0, "")]
  /\ UNCHANGED <<products, transactions, collections, auditEntries, now,
                 users, audits, client, calls>>

\* ------------------------------------------------------------ environment
Tick ==
  /\ NoneDone
  /\ now < MaxTime
  /\ now' = now + 1
  /\ UNCHANGED <<products, transactions, collections, auditEntries, req,
    users, audits, client, calls>>

\* The answer has been delivered; the slot serves the next request.
Finish(r) ==
  /\ req[r].pc = "done"
  /\ req' = [req EXCEPT ![r] = Idle]
  /\ UNCHANGED <<products, transactions, collections, auditEntries, now,
    users, audits, client, calls>>

Init ==
  /\ products = <<>>
  /\ transactions = <<>>
  /\ collections = [products |-> <<>>, inventory_transactions |-> <<>>]
  /\ auditEntries = 0
  /\ now = 0
  /\ req = [r \in Reqs |-> Idle]
  /\ users = DefaultUsers
  /\ audits = {}
  /\ client = LoggedOut
  /\ calls = [c \in Calls |-> IdleCall]

Next ==
  \/ \E r \in Reqs, sku \in SkuInputs, name \in NameInputs,
        price \in PriceInputs, quantity \in QuantityInputs :
       AddProductStart(r, sku, name, price, quantity)
  \/ \E r \in Reqs : AddProductGet(r)
  \/ \E r \in Reqs : AddProductSetProduct(r)
  \/ \E r \in Reqs : AddProductSetTransaction(r)
  \/ \E r \in Reqs, sku \in SkuInputs, type \in TypeInputs,
        quantity \in QuantityInputs, reason \in ReasonInputs :
       RecordTransaction(r, sku, type, quantity, reason)
  \/ \E r \in Reqs, sku \in SKUs : GetHistory(r, sku)
  \/ \E r \in Reqs, sku \in SKUs : GetProductStart(r, sku)
  \/ \E r \in Reqs : GetProductGet(r)
  \/ \E r \in Reqs : GetProductScan(r)
  \/ \E r \in Reqs, sku \in SKUs, timestamp \in TimestampInputs :
       TimeTravelStart(r, sku, timestamp)
  \/ \E r \in Reqs : TimeTravelGet(r)
  \/ \E r \in Reqs : TimeTravelScan(r)
  \/ \E r \in Reqs : TimeTravelAudit(r)
  \/ \E r \in Reqs : GetSnapshot(r)
  \/ \E r \in Reqs, transaction_id \in TransactionIdInputs :
       VerifyTransaction(r, transaction_id)
  \/ \E r \in Reqs, route \in Routes, headers \in HeaderInputs : Reject(r, route, headers)
  \/ Tick
  \/ \E r \in Reqs : Finish(r)

Spec == Init /\ [][Next]_vars

\* ------------------------------------------- a ledger at the scan limit
\* The store after n addProduct requests for the SKUs 1..n, each answered
\* 200: n products and n seeds.  The seed of SKU 1, of quantity q written at
\* time t, has the uuid at place pos of the key order.
ScanProducts(n, q) ==
  [s \in 1..n |->
     LET quantity == IF s = 1 THEN q ELSE 0 IN
     objToBuffer(NewProduct([Idle EXCEPT !.sku = s, !.created_at = 0,
                                         !.body = ProductBody(s, quantity),
                                         !.quantity = quantity]))]

ScanLedger(n, pos, q, t) ==
  [i \in 1..n |->
     LET s == IF i = pos THEN 1 ELSE IF i < pos THEN i + 1 ELSE i IN
     [key |-> i,
      value |-> objToBuffer(InitialTransaction(
                  [Idle EXCEPT !.sku = s, !.uuid = i,
                               !.quantity = IF s = 1 THEN q ELSE 0,
                               !.timestamp = IF s = 1 THEN t ELSE 0]))]]

InitScan ==
  \E n \in (ScanLimit - MaxOver)..(ScanLimit + MaxOver), q \in 0..MaxQty, t \in Times :
    \E pos \in {1, n} :
      /\ products = ScanProducts(n, q)
      /\ transactions = ScanLedger(n, pos, q, t)
      /\ collections = [products |-> <<>>, inventory_transactions |-> <<>>]
      /\ auditEntries = 0
      /\ now = MaxTime
      /\ req = [r \in Reqs |-> Idle]
      /\ users = DefaultUsers
      /\ audits = {}
      /\ client = LoggedOut
      /\ calls = [c \in Calls |-> IdleCall]

\* The time-travel route on that store.
NextScan ==
  \/ \E r \in Reqs, sku \in SKUs, timestamp \in TimestampInputs :
       TimeTravelStart(r, sku, timestamp)
  \/ \E r \in Reqs : TimeTravelGet(r)
  \/ \E r \in Reqs : TimeTravelScan(r)
  \/ \E r \in Reqs : TimeTravelAudit(r)
  \/ \E r \in Reqs : Finish(r)

SpecScan == InitScan /\ [][NextScan]_vars

\* ------------------------------------- the history fold on drawn rows
\* A row of 'inventory_transactions' as the transaction route builds it.
HistoryRow(id, sku, type, quantity, t) ==
  [key |-> id,
   value |-> objToBuffer(
     [transaction_id |-> id, sku |-> sku, type |-> type,
      quantity_change |-> IF type = "OUT" THEN 0 - quantity ELSE quantity,
      reason |-> "sale", timestamp |-> t])]

HistoryRowSet ==
  {HistoryRow(id, sku, type, quantity, t) :
     id \in Uuids, sku \in SKUs, type \in {"IN", "OUT"}, quantity \in 1..MaxQty, t \in Times}

\* Rows in any store order: distinct transaction ids, and no SKU's stock
\* below zero at any time.
HistoryRows ==
  {rows \in UNION {[1..n -> HistoryRowSet] : n \in 0..MaxTx} :
     /\ \A i, j \in 1..Len(rows) : i # j => rows[i].key # rows[j].key
     /\ \A sku \in SKUs, t \in Times : StockOver(rows, 1, Len(rows), sku, t) >= 0}

InitHistory ==
  \E rows \in HistoryRows :
    /\ products = <<>>
    /\ transactions = <<>>
    /\ collections =
         [products |-> [s \in SKUs |->
                          objToBuffer(NewProduct(
                            [Idle EXCEPT !.sku = s, !.body = ProductBody(s, 0)]))],
          inventory_transactions |-> rows]
    /\ auditEntries = 0
    /\ now = MaxTime
    /\ req = [r \in Reqs |-> Idle]
    /\ users = DefaultUsers
    /\ audits = {}
    /\ client = LoggedOut
    /\ calls = [c \in Calls |-> IdleCall]

\* The callback of the history route applied to the rows.
GetHistoryCallback(r, sku) ==
  /\ AcceptsAlone(r)
  /\ req' = [req EXCEPT ![r] =
       GetHistoryBody([Idle EXCEPT !.op = "getHistory", !.sku = sku,
                                   !.headers = LegacyApiKey], sku)]
  /\ UNCHANGED <<products, transactions, collections, auditEntries, now,
    users, audits, client, calls>>

NextHistory ==
  \/ \E r \in Reqs, sku \in SKUs : GetHistoryCallback(r, sku)
  \/ \E r \in Reqs : Finish(r)

SpecHistory == InitHistory /\ [][NextHistory]_vars

\* ------------------------------------- a ledger with a damaged record
\* The store after addProduct requests for every SKU, each answered 200, with
\* one more record of SKU 1 whose stored text is damaged, at place pos of the
\* key order.  The seed of SKU 1 has quantity q and was written at time t.
CorruptLedger(pos, q, t) ==
  [i \in 1..(NumSkus + 1) |->
     LET s == IF i < pos THEN i ELSE i - 1 IN
     [key |-> i,
      value |->
        IF i = pos
        THEN Damaged([transaction_id |-> i, sku |-> 1, type |-> "IN",
                      quantity_change |-> 1, reason |-> "restock", timestamp |-> 0])
        ELSE objToBuffer(InitialTransaction(
               [Idle EXCEPT !.sku = s, !.uuid = i,
                            !.quantity = IF s = 1 THEN q ELSE 0,
                            !.timestamp = IF s = 1 THEN t ELSE 0]))]]

\* Both stores hold the records: the key-value ledger the scans read, and
\* the collection the folds of the collection routes read.
InitCorrupt ==
  \E pos \in 1..(NumSkus + 1), q \in 0..MaxQty, t \in Times :
    /\ products = ScanProducts(NumSkus, q)
    /\ transactions = CorruptLedger(pos, q, t)
    /\ collections = [products |-> ScanProducts(NumSkus, q),
                      inventory_transactions |-> CorruptLedger(pos, q, t)]
    /\ auditEntries = 0
    /\ now = MaxTime
    /\ req = [r \in Reqs |-> Idle]
    /\ users = DefaultUsers
    /\ audits = {}
    /\ client = LoggedOut
    /\ calls = [c \in Calls |-> IdleCall]

\* The routes that read the records: the product route and the time-travel
\* route as they run, and the callback of the history route applied to the
\* rows.
NextCorrupt ==
  \/ \E r \in Reqs, sku \in SKUs : GetProductStart(r, sku)
  \/ \E r \in Reqs : GetProductGet(r)
  \/ \E r \in Reqs : GetProductScan(r)
  \/ \E r \in Reqs, sku \in SKUs, timestamp \in TimestampInputs :
       TimeTravelStart(r, sku, timestamp)
  \/ \E r \in Reqs : TimeTravelGet(r)
  \/ \E r \in Reqs : TimeTravelScan(r)
  \/ \E r \in Reqs : TimeTravelAudit(r)
  \/ \E r \in Reqs, sku \in SKUs : GetHistoryCallback(r, sku)
  \/ \E r \in Reqs : Finish(r)

SpecCorrupt == InitCorrupt /\ [][NextCorrupt]_vars

\* ------------------------------- overlapping transaction requests
\* The handler of the transaction route up to its first await: validation,
\* then withImmudb awaits client.login, so that requests overlap.
RecordTransactionStart(r, sku, type, quantity, reason) ==
  /\ NoneDone
  /\ req[r].op = "idle"
  /\ \E headers \in HeaderInputs :
       LET body == [sku |-> sku, type |-> type, quantity |-> quantity, reason |-> reason]
           q == [Idle EXCEPT !.op = "recordTransaction", !.pc = "callback",
                             !.sku = sku, !.headers = headers, !.body = body,
                             !.type = toUpperCase(type), !.quantity = quantity.v]
           invalid == [Idle EXCEPT !.op = "recordTransaction", !.headers = headers,
                                   !.body = body]
       IN
       /\ Passes("recordTransaction", headers)
       /\ req' = [req EXCEPT ![r] =
            IF sku = EmptySku \/ type = "" \/ quantity.null \/ quantity.v <= 0 \/ reason = ""
            THEN Respond(invalid, 400, "ValidationError")
            ELSE IF toUpperCase(type) \notin validTypes
            THEN Respond(invalid, 400, "ValidationError")
            ELSE q]
  /\ UNCHANGED <<products, transactions, collections, auditEntries, now,
    users, audits, client, calls>>

\* client.login, then callback(client): a rejected login answers 500; in the
\* callback collectionClient is unbound, collectionClient.get throws a
\* TypeError and the handler answers 500.  The statements after it (the
\* stock check and the append) are not reached.
RecordTransactionCallback(r) ==
  /\ At(r, "recordTransaction", "callback")
  /\ ~HasCollectionClient
  /\ LET q == [req[r] EXCEPT !.pre = <<req[r].sku \in DOMAIN products,
                                       LedgerStock(req[r].sku, MaxTime)>>]
     IN  \/ req' = [req EXCEPT ![r] = Respond(q, 500, "InternalError")]
         \/ req' = [req EXCEPT ![r] = Respond(q, 500, "StorageError")]
  /\ UNCHANGED <<products, transactions, collections, auditEntries, now,
    users, audits, client, calls>>

\* The store after addProduct requests for every SKU, each answered 200.
InitRace ==
  \E q \in 0..MaxQty, t \in Times, pos \in {1, NumSkus} :
    /\ products = ScanProducts(NumSkus, q)
    /\ transactions = ScanLedger(NumSkus, pos, q, t)
    /\ collections = [products |-> <<>>, inventory_transactions |-> <<>>]
    /\ auditEntries = 0
    /\ now = MaxTime
    /\ req = [r \in Reqs |-> Idle]
    /\ users = DefaultUsers
    /\ audits = {}
    /\ client = LoggedOut
    /\ calls = [c \in Calls |-> IdleCall]

NextRace ==
  \/ \E r \in Reqs, sku \in SkuInputs, type \in TypeInputs,
        quantity \in QuantityInputs, reason \in ReasonInputs :
       RecordTransactionStart(r, sku, type, quantity, reason)
  \/ \E r \in Reqs : RecordTransactionCallback(r)
  \/ \E r \in Reqs : Finish(r)

SpecRace == InitRace /\ [][NextRace]_vars

\* --------------------------------------- the validation on wider bodies
\* Bodies with a negative price, a negative quantity, or a quantity that is
\* not an integer, sent one request at a time.
PriceInputsWide ==
  PriceInputs \cup {[null |-> FALSE, v |-> 0 - 1, half |-> FALSE]}
ProductQuantityInputsWide ==
  QuantityInputs \cup {[null |-> FALSE, v |-> 0 - 1, half |-> FALSE]}
TransactionQuantityInputsWide ==
  QuantityInputs \cup {[null |-> FALSE, v |-> 0 - 1, half |-> FALSE],
                       [null |-> FALSE, v |-> 1, half |-> TRUE]}

NextValidation ==
  \/ \E sku \in SkuInputs, name \in NameInputs,
        price \in PriceInputsWide, quantity \in ProductQuantityInputsWide :
       AddProductStart(1, sku, name, price, quantity)
  \/ AddProductGet(1)
  \/ AddProductSetProduct(1)
  \/ AddProductSetTransaction(1)
  \/ \E sku \in SkuInputs, type \in TypeInputs,
        quantity \in TransactionQuantityInputsWide, reason \in ReasonInputs :
       RecordTransaction(1, sku, type, quantity, reason)
  \/ Finish(1)

SpecValidation == Init /\ [][NextValidation]_vars


\* --------------------------------------- the stock folds on a drawn ledger
\* A ledger record as the routes build it: an OUT carries the negated
\* quantity, IN and ADJUSTMENT the quantity.
FoldRecord(id, sku, type, quantity, t) ==
  [key |-> id,
   value |-> objToBuffer(
     [transaction_id |-> id, sku |-> sku, type |-> type,
      quantity_change |-> IF type = "OUT" THEN 0 - quantity ELSE quantity,
      reason |-> "sale", timestamp |-> t])]

\* The ledgers of at most MaxFold records under the keys 1..n, in key order.
FoldLedgers ==
  UNION {{[i \in 1..n |-> FoldRecord(i, f[i].sku, f[i].type, 1, f[i].t)] :
            f \in [1..n -> [sku : SKUs, type : validTypes, t : Times]]} :
         n \in 0..MaxFold}

InitFold ==
  \E ledger \in FoldLedgers :
    /\ products = ScanProducts(NumSkus, 0)
    /\ transactions = ledger
    /\ collections = [products |-> <<>>, inventory_transactions |-> <<>>]
    /\ auditEntries = 0
    /\ now = MaxTime
    /\ req = [r \in Reqs |-> Idle]
    /\ users = DefaultUsers
    /\ audits = {}
    /\ client = LoggedOut
    /\ calls = [c \in Calls |-> IdleCall]

\* The product route and the time-travel route on that ledger.
NextFold ==
  \/ \E r \in Reqs, sku \in SKUs : GetProductStart(r, sku)
  \/ \E r \in Reqs : GetProductGet(r)
  \/ \E r \in Reqs : GetProductScan(r)
  \/ \E r \in Reqs, sku \in SKUs, timestamp \in TimestampInputs :
       TimeTravelStart(r, sku, timestamp)
  \/ \E r \in Reqs : TimeTravelGet(r)
  \/ \E r \in Reqs : TimeTravelScan(r)
  \/ \E r \in Reqs : TimeTravelAudit(r)
  \/ \E r \in Reqs : Finish(r)

SpecFold == InitFold /\ [][NextFold]_vars


\* ------------------------------------------- the calls of user management
\* The program after construction: the default admin is the only user.
InitUsers ==
  /\ products = <<>>
  /\ transactions = <<>>
  /\ collections = [products |-> <<>>, inventory_transactions |-> <<>>]
  /\ auditEntries = 0
  /\ now = 0
  /\ req = [r \in Reqs |-> Idle]
  /\ users = DefaultUsers
  /\ audits = {}
  /\ client = LoggedOut
  /\ calls = [c \in Calls |-> IdleCall]

\* createUser and updateUser as the routes POST /users and PUT /users/:userId
\* call them.
NextUsers ==
  \/ \E r \in Reqs, username \in Usernames \cup {""}, password \in PasswordInputs,
        email \in Emails :
       CreateUser(r, username, password, email)
  \/ \E r \in Reqs, userId \in UserIds, updates \in UpdateInputs :
       UpdateUser(r, userId, updates)
  \/ \E r \in Reqs : Finish(r)

\* The login route and authenticateUser, while the clock runs.
NextLogin ==
  \/ \E r \in Reqs, username \in Usernames, password \in PasswordInputs :
       AuthenticateUser(r, username, password)
  \/ \E r \in Reqs, headers \in HeaderInputs, username \in Usernames \cup {""},
        password \in PasswordInputs :
       AdminLogin(r, headers, username, password)
  \/ LockTick
  \/ \E r \in Reqs : Finish(r)

SpecLogin == InitUsers /\ [][NextLogin]_vars

SpecUsers == InitUsers /\ [][NextUsers]_vars


\* ------------------------------------------- the calls of withImmudb
NextClient ==
  \/ \E c \in Calls, parent \in Calls \cup {0} : WithImmudbCall(c, parent)
  \/ \E c \in Calls : WithImmudbLogin(c)
  \/ \E c \in Calls : WithImmudbOperation(c)
  \/ \E c \in Calls : WithImmudbReturn(c)
  \/ \E c \in Calls : WithImmudbFinally(c)
  \/ \E c \in Calls : WithImmudbSettle(c)

SpecClient == InitUsers /\ [][NextClient]_vars


\* ------------------------------------------- the calls of the audit logger
NextAudit ==
  \/ \E r \in Reqs, eventType \in EventTypeInputs, user_id \in AuditUserInputs :
       LogEvent(r, eventType, [user_id |-> user_id])
  \/ \E r \in Reqs, filters \in FilterInputs : GetAuditLogs(r, filters)
  \/ Tick
  \/ \E r \in Reqs : Finish(r)

SpecAudit == InitUsers /\ [][NextAudit]_vars

\* ------------------------------------------------------------ properties
Done(r, op) == req[r].pc = "done" /\ req[r].op = op

\* The ledger records of a SKU that are 'Initial Stock' seeds.
Seeds(sku) ==
  {i \in 1..Len(transactions) :
     /\ Parses(transactions[i].value)
     /\ bufferToObj(transactions[i].value).sku = sku
     /\ bufferToObj(transactions[i].value).reason = "Initial Stock"}

\* C1: recordTransaction(sku, OUT, q) on an existing product whose stock is
\* smaller than q is answered with InsufficientStockError.
C1_OutBeyondStockIsInsufficient ==
  \A r \in Reqs :
    (Done(r, "recordTransaction") /\ req[r].type = "OUT"
       /\ req[r].pre[1] /\ req[r].pre[2] < req[r].quantity)
    => req[r].error = "InsufficientStockError"

\* C2: a successful getProductDetails whose scan resolved reports as
\* current_stock the seed quantity plus the signed changes of the accepted
\* transactions, i.e. the sum of quantity_change over the SKU's ledger.
C2_DetailsReportLedgerStock ==
  \A r \in Reqs :
    (Done(r, "getProductDetails") /\ req[r].status = 200 /\ req[r].scanned)
    => req[r].stock = req[r].pre[1]

\* C3: for a product created by addProduct, an OUT whose quantity is at most
\* the stock of the ledger is accepted and appended (answer 201).
C3_OutWithinStockIsAccepted ==
  \A r \in Reqs :
    (Done(r, "recordTransaction") /\ req[r].type = "OUT"
       /\ req[r].pre[1] /\ req[r].quantity <= req[r].pre[2])
    => req[r].status = 201

\* C4: an addProduct request for a SKU that was registered when the request
\* arrived writes nothing, and is answered 409 DuplicateSkuError unless the
\* lookup itself fails with a storage error (answered 500).
C4_DuplicateSkuWritesNothing ==
  \A r \in Reqs :
    (req[r].op = "addProduct" /\ req[r].pre = <<TRUE>>)
    => /\ req[r].writes = 0
       /\ req[r].pc = "done" =>
            \/ req[r].status = 409 /\ req[r].error = "DuplicateSkuError"
            \/ req[r].status = 500 /\ req[r].error = "StorageError"

C4_Witness ==
  \E r \in Reqs :
    Done(r, "addProduct") /\ req[r].pre = <<TRUE>> /\ req[r].status = 409

\* C5: in every interleaving of addProduct requests the ledger holds no more
\* than one 'Initial Stock' seed per SKU.
C5_OneSeedPerSku == \A sku \in SKUs : Cardinality(Seeds(sku)) <= 1

\* C6: when addProduct answers 200, the product is stored and the ledger
\* holds the request's seed {IN, quantity_change = quantity, 'Initial Stock'}.
C6_SuccessHasProductAndSeed ==
  \A r \in Reqs :
    (Done(r, "addProduct") /\ req[r].status = 200)
    => /\ req[r].sku \in DOMAIN products
       /\ \E i \in 1..Len(transactions) :
            LET tx == bufferToObj(transactions[i].value) IN
            /\ transactions[i].key = req[r].uuid
            /\ tx.sku = req[r].sku
            /\ tx.type = "IN"
            /\ tx.quantity_change = req[r].quantity
            /\ tx.reason = "Initial Stock"

C6_Witness ==
  \E r \in Reqs :
    Done(r, "addProduct") /\ req[r].status = 200 /\ req[r].quantity = 1

\* C7: every record of the ledger is in the ledger, with the same key and
\* the same fields, after every step.
C7_LedgerAppendOnly ==
  [][\A i \in 1..Len(transactions) :
       \E j \in 1..Len(transactions') : transactions'[j] = transactions[i]]_vars

C7_Witness ==
  /\ Len(transactions) = 2
  /\ \E r \in Reqs : Done(r, "addProduct") /\ req[r].status = 200

\* C9: timeTravel(sku, T0) with T0 the stored created_at of the product, on
\* a ledger whose only record of the SKU is its seed, returns the seed's
\* quantity_change as stock and transactions_included = 1.
C9_TimeTravelAtCreationIncludesSeed ==
  \A r \in Reqs :
    (Done(r, "timeTravel") /\ req[r].status = 200 /\ req[r].scanned
       /\ req[r].target = req[r].created_at
       /\ Cardinality(Seeds(req[r].sku)) = 1
       /\ LedgerCount(req[r].sku, MaxTime) = 1)
    => /\ req[r].count = 1
       /\ \A i \in Seeds(req[r].sku) :
            req[r].stock = bufferToObj(transactions[i].value).quantity_change

\* C8: a successful timeTravel(sku, T) whose scan resolved returns the sum
\* of quantity_change over all the ledger records of the SKU with
\* timestamp <= T, and their number, however many records the ledger holds.
C8_TimeTravelSumsWholeLedger ==
  \A r \in Reqs :
    (Done(r, "timeTravel") /\ req[r].status = 200 /\ req[r].scanned)
    => /\ req[r].stock = req[r].pre[1]
       /\ req[r].count = req[r].pre[2]

\* The sum of quantity_change over history[1..i].
RECURSIVE PrefixSum(_, _)
PrefixSum(history, i) ==
  IF i = 0 THEN 0 ELSE PrefixSum(history, i - 1) + history[i].quantity_change

C11_SnapshotListsEveryProduct ==
  \A r \in Reqs :
    Done(r, "getSnapshot")
    => /\ req[r].status = 200
       /\ Len(req[r].snapshot) = Cardinality(DOMAIN products)
       /\ {req[r].snapshot[i].sku : i \in 1..Len(req[r].snapshot)} = DOMAIN products
       /\ \A i, j \in 1..Len(req[r].snapshot) :
            i < j => req[r].snapshot[i].sku < req[r].snapshot[j].sku
       /\ \A i \in 1..Len(req[r].snapshot) :
            req[r].snapshot[i].current_stock =
              LedgerStock(req[r].snapshot[i].sku, MaxTime)

\* C12: verifyTransaction, once its handler is reached, answers 200 for the
\* id of a ledger record and 404 for any other id, never an internal error.
C12_VerifyFindsEveryTransaction ==
  \A r \in Reqs :
    Done(r, "verifyTransaction")
    => IF req[r].pre[1] THEN req[r].status = 200 ELSE req[r].status = 404

\* C13: a request that carries the valid legacy API key is never answered
\* 401 or 403 on create product, get product, time travel and audit verify.
C13_LegacyKeyIsAuthorized ==
  \A r \in Reqs :
    (/\ req[r].pc = "done"
     /\ req[r].headers = LegacyApiKey
     /\ req[r].op \in {"addProduct", "getProductDetails", "timeTravel", "verifyTransaction"})
    => req[r].status \notin {401, 403}

\* C14: a request that arrives with no credentials or with a wrong API key,
\* on any route, is answered 401 at once: its handler is not run, nothing of
\* the store is read for it and no record is written.
C14_NoCredentialsIsUnauthorized ==
  [][\A r \in Reqs :
       (/\ req[r].op = "idle"
        /\ req'[r].op # "idle"
        /\ req'[r].headers \in {NoCredentials, WrongApiKey})
       => /\ req'[r].pc = "done"
          /\ req'[r].status = 401
          /\ req'[r].pre = <<>>
          /\ ~req'[r].scanned
          /\ req'[r].writes = 0
          /\ UNCHANGED <<products, transactions, collections>>]_vars

C14_Witness ==
  /\ Len(transactions) >= 1
  /\ \E r \in Reqs :
       /\ req[r].pc = "done"
       /\ req[r].op = "timeTravel"
       /\ req[r].headers = WrongApiKey
       /\ req[r].status = 401

\* C18: recordTransaction, getHistory, getProductDetails and timeTravel on a
\* SKU that is not registered are answered 404 NotFoundError, unless the
\* store itself fails.
C18_UnknownSkuIsNotFound ==
  \A r \in Reqs :
    (/\ req[r].pc = "done"
     /\ req[r].op \in {"recordTransaction", "getHistory", "getProductDetails", "timeTravel"}
     /\ req[r].sku \in SKUs
     /\ req[r].sku \notin DOMAIN products
     /\ req[r].error # "StorageError")
    => req[r].status = 404 /\ req[r].error = "NotFoundError"

\* C19: getProductDetails and timeTravel report success only if their scan
\* of the transactions resolved.
C19_FailedScanIsNotSuccess ==
  \A r \in Reqs :
    (/\ req[r].pc = "done"
     /\ req[r].op \in {"getProductDetails", "timeTravel"}
     /\ req[r].status = 200)
    => req[r].scanned

\* A number of a body is a non-negative integer.
IsNonNegativeInteger(n) == ~n.null /\ ~n.half /\ n.v >= 0

\* C16: recordTransaction with an empty sku, a type outside IN, OUT,
\* ADJUSTMENT (whatever its case), a quantity that is not a positive integer
\* or an empty reason is answered 400 ValidationError.
C16_InvalidTransactionIsRejected ==
  \A r \in Reqs :
    (/\ Done(r, "recordTransaction")
     /\ req[r].status # 401
     /\ \/ req[r].body.sku = EmptySku
        \/ toUpperCase(req[r].body.type) \notin validTypes
        \/ ~IsNonNegativeInteger(req[r].body.quantity)
        \/ req[r].body.quantity.v = 0
        \/ req[r].body.reason = "")
    => req[r].status = 400 /\ req[r].error = "ValidationError"

\* C17: addProduct with a missing or empty sku or name, a missing or
\* negative price, or a quantity that is missing, negative or not an integer
\* is answered 400 ValidationError and has written nothing (unless the
\* store fails).
C17_InvalidProductIsRejected ==
  \A r \in Reqs :
    (/\ Done(r, "addProduct")
     /\ req[r].status # 401
     /\ req[r].error # "StorageError"
     /\ \/ req[r].body.sku = EmptySku
        \/ req[r].body.name = ""
        \/ req[r].body.price.null
        \/ req[r].body.price.v < 0
        \/ ~IsNonNegativeInteger(req[r].body.quantity))
    => /\ req[r].writes = 0
       /\ req[r].status = 400
       /\ req[r].error = "ValidationError"

\* The rows of a SKU in 'inventory_transactions' whose value parses.
WellFormedRows(sku) ==
  SelectSeq(collections.inventory_transactions, LAMBDA row :
    Parses(row.value) /\ bufferToObj(row.value).sku = sku)

\* C20: a record that does not parse is skipped and the operation goes on:
\* a stock query, a historical query and a history whose store calls all
\* resolved answer 200 with the result computed from the records of the SKU
\* that do parse.
C20_MalformedRecordIsSkipped ==
  \A r \in Reqs :
    (req[r].pc = "done" /\ req[r].sku \in DOMAIN products
       /\ req[r].status \notin {400, 401, 403} /\ req[r].error # "StorageError")
    => /\ (req[r].op = "getHistory")
            => /\ req[r].status = 200
               /\ Len(req[r].history) = Len(WellFormedRows(req[r].sku))
       /\ (req[r].op = "getProductDetails" /\ req[r].scanned)
            => /\ req[r].status = 200
               /\ req[r].stock = LedgerStock(req[r].sku, MaxTime)
       /\ (req[r].op = "timeTravel" /\ req[r].scanned)
            => /\ req[r].status = 200
               /\ req[r].stock = LedgerStock(req[r].sku, req[r].target)
               /\ req[r].count = LedgerCount(req[r].sku, req[r].target)

Between(sku, t1, t2) ==
  {i \in 1..Len(transactions) :
     /\ Parses(transactions[i].value)
     /\ bufferToObj(transactions[i].value).sku = sku
     /\ bufferToObj(transactions[i].value).timestamp > t1
     /\ bufferToObj(transactions[i].value).timestamp <= t2}

\* historical_stock_at_timestamp of a time-travel query of the SKU of
\* request r at the cutoff t on the present ledger.
HistoricalStock(r, t) ==
  TimeTravelStock(Scan(transactions, ScanLimit), req[r].sku, req[r].created_at, t).stock

\* C21: for a SKU and cutoffs t1 < t2, the time-travel stock at t1 is at most
\* the stock at t2 when every record in (t1, t2] has a non-negative
\* quantity_change, and at least the stock at t2 when every such record is
\* an OUT.
C21_StockIsMonotoneInCutoff ==
  \A r \in Reqs :
    (Done(r, "timeTravel") /\ req[r].status = 200 /\ req[r].scanned)
    => \A t1 \in Times :
         t1 < req[r].target
         => /\ (\A i \in Between(req[r].sku, t1, req[r].target) :
                  bufferToObj(transactions[i].value).quantity_change >= 0)
               => HistoricalStock(r, t1) <= req[r].stock
            /\ (\A i \in Between(req[r].sku, t1, req[r].target) :
                  bufferToObj(transactions[i].value).type = "OUT")
               => HistoricalStock(r, t1) >= req[r].stock

C21_Witness ==
  \E r \in Reqs :
    /\ Done(r, "timeTravel") /\ req[r].status = 200 /\ req[r].scanned
    /\ req[r].target = MaxTime
    /\ Between(req[r].sku, 0, MaxTime) # {}
    /\ \A i \in Between(req[r].sku, 0, MaxTime) :
         bufferToObj(transactions[i].value).type = "OUT"
    /\ HistoricalStock(r, 0) > req[r].stock


\* The orders in which a scan may return the records of the ledger.
ScanOrders ==
  LET n == Len(transactions) IN
  {[i \in 1..n |-> transactions[p[i]]] :
     p \in {f \in [1..n -> 1..n] : \A i, j \in 1..n : i # j => f[i] # f[j]}}

\* C22: for a cutoff not before the largest timestamp, the stock answered
\* by getProductDetails and by timeTravel (scan resolved) is the sum of the
\* quantity_change of all the records of the SKU, and the route's fold gives
\* that stock for every order of the records in the scan response.
C22_StockIsSumInAnyOrder ==
  \A r \in Reqs :
    /\ (Done(r, "getProductDetails") /\ req[r].status = 200 /\ req[r].scanned)
       => /\ req[r].stock = LedgerStock(req[r].sku, MaxTime)
          /\ \A entries \in ScanOrders :
               ProductStock(Scan(entries, ScanLimit), req[r].sku,
                            req[r].created_at).stock = req[r].stock
    /\ (Done(r, "timeTravel") /\ req[r].status = 200 /\ req[r].scanned
          /\ req[r].target = MaxTime)
       => /\ req[r].stock = LedgerStock(req[r].sku, MaxTime)
          /\ \A entries \in ScanOrders :
               TimeTravelStock(Scan(entries, ScanLimit), req[r].sku,
                               req[r].created_at, req[r].target).stock = req[r].stock


\* C23: the login route needs no prior authentication: a request that
\* carries no JWT and the username and password of an active user that is not
\* locked is answered 200 with a token.
C23_LoginNeedsNoToken ==
  \A r \in Reqs :
    (/\ Done(r, "adminLogin")
     /\ req[r].headers.authorization = ""
     /\ req[r].pre[1] # Null
     /\ req[r].pre[1].status = "ACTIVE"
     /\ req[r].pre[1].locked_until.null
     /\ bcryptCompare(req[r].body.password, req[r].pre[1].password_hash))
    => req[r].status = 200


\* C24: while the callback of a withImmudb call runs the shared client is
\* logged in, whatever other calls do in the meantime, and a call whose
\* login resolved has logged out exactly once when it ends.
C24_ClientStaysLoggedIn ==
  \A c \in Calls :
    /\ calls[c].pc \in {"callback", "await"} => client.session
    /\ ~calls[c].loggedOut
    /\ (calls[c].pc = "done" /\ calls[c].loginResponse) => calls[c].logouts = 1


C26_LockAfterFiveFailures ==
  /\ \A id \in DOMAIN users.user :
       LET user == getUserById(users, id) IN
       (~user.locked_until.null /\ user.locked_until.t > now)
       => users.streak[id] >= MaxFailedLogins
  /\ \A r \in Reqs :
       (Done(r, "authenticateUser") /\ req[r].pre[1] # Null)
       => /\ (~req[r].pre[1].locked_until.null /\ req[r].pre[1].locked_until.t > now)
             => req[r].error = "Account is temporarily locked"
          /\ req[r].error = ""
             => getUserById(users, req[r].pre[1].user_id).failed_login_attempts = 0


\* C28: each username and each email identifies at most one user: the
\* username and the email of every user resolve to that user, and a username
\* or email resolves only to a user that bears it now.
C28_NamesIdentifyOneUser ==
  /\ \A id \in DOMAIN users.user :
       LET user == getUserById(users, id) IN
       /\ getUserByUsername(users, user.username) = user
       /\ getUserByEmail(users, user.email) = user
  /\ \A username \in DOMAIN users.username :
       getUserByUsername(users, username).username = username
  /\ \A email \in DOMAIN users.email :
       getUserByEmail(users, email).email = email


\* The audit entries of the store.
StoredAudits ==
  {bufferToObj(e.value) : e \in {x \in audits : x.key[1] = "audit"}}

\* An audit entry matches the filter of a query.
MatchesFilter(log, filters) ==
  /\ "user_id" \in DOMAIN filters => log.user_id = filters.user_id
  /\ "event_type" \in DOMAIN filters => log.event_type = filters.event_type
  /\ "risk_level" \in DOMAIN filters => log.risk_level = filters.risk_level

\* C27: getAuditLogs returns the stored audit entries that match its filter
\* (all of them without a filter), the store holding no more than the limit.
C27_AuditLogsReturnStoredEvents ==
  \A r \in Reqs :
    Done(r, "getAuditLogs")
    => {req[r].history[i] : i \in 1..Len(req[r].history)}
         = {log \in StoredAudits : MatchesFilter(log, req[r].body)}


\* The operations that are route handlers.
RouteOps ==
  {"addProduct", "getProductDetails", "recordTransaction", "getHistory",
   "getSnapshot", "timeTravel", "verifyTransaction", "adminLogin"}

QueryOps ==
  {"getProductDetails", "getHistory", "getSnapshot", "timeTravel", "verifyTransaction"}

\* A step of a query: the request of slot r is taken, advanced or answered.
QueryStep(r) == req'[r] # req[r] /\ req'[r].op \in QueryOps

\* C30: a step of getProductDetails, getHistory, getSnapshot, timeTravel or
\* verifyTransaction leaves the product records and the transaction records
\* as they were (only the number of audit entries may grow), and the
\* current_stock that getProductDetails answers is the one its calculation
\* yields on the store it leaves, so a second call with no write in between
\* answers the same current_stock.
C30_QueriesLeaveRecordsUnchanged ==
  [][\A r \in Reqs :
       QueryStep(r)
       => /\ UNCHANGED <<products, transactions, collections>>
          /\ auditEntries' >= auditEntries
          /\ (req'[r].op = "getProductDetails" /\ req'[r].pc = "done"
                /\ req'[r].status = 200)
             => req'[r].stock
                  = ProductStock(Scan(transactions', ScanLimit), req'[r].sku,
                                 req'[r].created_at).stock]_vars

\* A product with a ledger record has been queried by each of the
\* operations that answer with the store as it is: here getProductDetails
\* has answered 200 and a time-travel query has logged its audit entry.
C30_Witness ==
  /\ Len(transactions) > 0
  /\ auditEntries > 0
  /\ \E r \in Reqs :
       /\ Done(r, "getProductDetails")
       /\ req[r].status = 200
       /\ \E i \in 1..Len(transactions) :
            bufferToObj(transactions[i].value).sku = req[r].sku

====
